---------------------------- MODULE Spec2Model ----------------------------
(***************************************************************************)
(* A model of mtx_to_csv: the EMME matrix decoder (src/src/matrix.rs), the *)
(* plain/gzip Reader (src/src/util.rs) and the parallel driver             *)
(* (src/src/main.rs).                                                      *)
(*                                                                         *)
(* Numbers: TLC's integers are 32 bits wide, so a u32 read from the file   *)
(* is kept as its two 16-bit halves [lo, hi] (ReadU32), compared as such   *)
(* (the magic number) and turned into a number (ToUsize) only for the      *)
(* counts and labels, which the inputs keep below 2^31.                    *)
(***************************************************************************)
EXTENDS Integers, Sequences, FiniteSets, TLC

VARIABLES
    \* ---- decoder and CSV writers (matrix.rs)
    gen,        \* the parameters the input file was built from (ghost)
    file,       \* the bytes of the input file, as from_emme_file reads them
    pc,         \* "start" | "decoded" | "written"
    matrix,     \* the io::Result<Matrix> of from_emme_file
    csv,        \* what the chosen CSV writer did: result kind and lines written
    \* ---- Reader::seek on a gzip source (util.rs)
    slen,       \* length of the decompressed stream
    spos,       \* position of the decompressed stream
    scall,      \* the call in progress on the reader, or the last one finished
    \* ---- the parallel driver (main.rs)
    files,      \* the list of input files of the run
    column_output,
    task,       \* per file: "pending" | "running" | "ok" | "reported" | "panicked" | "skipped"
    leaves,     \* the runs <<first, last>> of files the parallel iterator was split into
    mainpc,     \* "par_iter" | "returned" | "panicked"
    \* ---- process_mtx and its buffered sink (main.rs)
    sink        \* the BufWriter<File> of one process_mtx call, and the call's position

decodeVars == <<gen, file, pc, matrix, csv>>
seekVars   == <<slen, spos, scall>>
driverVars == <<files, column_output, task, leaves, mainpc>>
sinkVars   == <<sink>>
vars       == <<gen, file, pc, matrix, csv, slen, spos, scall,
                files, column_output, task, leaves, mainpc, sink>>

-----------------------------------------------------------------------------
(* Bounds of the model *)

\* Largest index length (m, n) of a generated input file.
MaxLen == 2

\* Largest number of input files of one run of the driver.
MaxFiles == 3

\* Largest free space of the disk the output file is written to, in bytes.
MaxDisk == 100


-----------------------------------------------------------------------------
(* Bytes and fixed-width numbers *)

RECURSIVE Pow2(_)
Pow2(n) == IF n = 0 THEN 1 ELSE 2 * Pow2(n - 1)

\* The four little-endian bytes of a number below 2^31.
LE4(n) == << n % 256, (n \div 256) % 256, (n \div 65536) % 256, (n \div 16777216) % 256 >>

\* A u32 from four little-endian bytes, as its 16-bit halves.
FromLE(b) == [lo |-> b[1] + 256 * b[2], hi |-> b[3] + 256 * b[4]]

\* `as usize` of a u32 (the inputs keep hi below 2^15).
ToUsize(u) == u.hi * 65536 + u.lo

\* 0xC4D4F1B2
MAGIC == [lo |-> 61874, hi |-> 50388]

RECURSIVE Flatten(_)
Flatten(ss) == IF ss = << >> THEN << >> ELSE Head(ss) \o Flatten(Tail(ss))

-----------------------------------------------------------------------------
(* Reader (util.rs): a byte source with a position *)

NewReader(bytes) == [buf |-> bytes, pos |-> 0]

\* A read_exact that takes what is there and reports success (the mutant of
\* ReadExact: `read` in place of `read_exact`); missing bytes read as 0.
ReadShort(rd, n) ==
    LET avail == IF Len(rd.buf) - rd.pos < n THEN Len(rd.buf) - rd.pos ELSE n
    IN  [ok |-> TRUE,
         bytes |-> SubSeq(rd.buf, rd.pos + 1, rd.pos + avail) \o [i \in 1..(n - avail) |-> 0],
         rd |-> [rd EXCEPT !.pos = @ + avail]]

\* Read::read_exact on the Reader: all n bytes, or UnexpectedEof.
ReadExact(rd, n) ==
    IF rd.pos + n <= Len(rd.buf)
    THEN [ok |-> TRUE, bytes |-> SubSeq(rd.buf, rd.pos + 1, rd.pos + n),
          rd |-> [rd EXCEPT !.pos = @ + n]]
    ELSE [ok |-> FALSE, bytes |-> << >>, rd |-> [rd EXCEPT !.pos = Len(rd.buf)]]

\* reader.read_u32::<LittleEndian>()
ReadU32(rd) ==
    LET r == ReadExact(rd, 4)
    IN  IF r.ok THEN [ok |-> TRUE, val |-> FromLE(r.bytes), rd |-> r.rd]
        ELSE [ok |-> FALSE, val |-> MAGIC, rd |-> r.rd]

\* Reader::read_into_vector::<T>(size) for a 4-byte T: size elements, each the
\* u32 its four bytes hold, or the error of read_exact.
ReadIntoVector(rd, size) ==
    LET r == ReadExact(rd, size * 4)
    IN  IF r.ok
        THEN [ok |-> TRUE,
              data |-> [i \in 1..size |-> FromLE(SubSeq(r.bytes, 4 * i - 3, 4 * i))],
              rd |-> r.rd]
        ELSE [ok |-> FALSE, data |-> << >>, rd |-> r.rd]

-----------------------------------------------------------------------------
(* Matrix::from_emme_file (matrix.rs) *)

Err(msg) == [kind |-> "Err", msg |-> msg]

MagicOk(u) == u = MAGIC

\* The dimension check that accepts fewer dimensions (mutant of DimensionsOk).
DimensionsAtMost(d) == d <= 2

DimensionsOk(d) == d = 2

\* The payload size taken from the first length twice (mutant of PayloadSize).
PayloadSizeFirst(index_length) == index_length[1] * index_length[1]

PayloadSize(index_length) == index_length[1] * index_length[2]

\* The part of from_emme_file after the header: the two index lengths, the two
\* index arrays, the payload, and the Matrix.
ReadBody(rd) ==
    LET l0 == ReadU32(rd) IN
    IF ~l0.ok THEN Err("UnexpectedEof") ELSE
    LET l1 == ReadU32(l0.rd) IN
    IF ~l1.ok THEN Err("UnexpectedEof") ELSE
    LET index_length == << ToUsize(l0.val), ToUsize(l1.val) >>
        i0 == ReadIntoVector(l1.rd, index_length[1]) IN
    IF ~i0.ok THEN Err("UnexpectedEof") ELSE
    LET i1 == ReadIntoVector(i0.rd, index_length[2]) IN
    IF ~i1.ok THEN Err("UnexpectedEof") ELSE
    LET d == ReadIntoVector(i1.rd, PayloadSize(index_length)) IN
    IF ~d.ok THEN Err("UnexpectedEof") ELSE
    [kind |-> "Ok",
     data |-> d.data,
     rows |-> index_length[1],
     cols |-> index_length[2],
     indexes |-> << i0.data, i1.data >>]

FromEmmeFile(bytes) ==
    LET magic_number == ReadU32(NewReader(bytes)) IN
    IF ~magic_number.ok THEN Err("UnexpectedEof") ELSE
    IF ~MagicOk(magic_number.val) THEN Err("Invalid header") ELSE
    LET version == ReadU32(magic_number.rd) IN
    IF ~version.ok THEN Err("UnexpectedEof") ELSE
    LET data_type == ReadU32(version.rd) IN
    IF ~data_type.ok THEN Err("UnexpectedEof") ELSE
    LET dimensions == ReadU32(data_type.rd) IN
    IF ~dimensions.ok THEN Err("UnexpectedEof") ELSE
    IF ~DimensionsOk(ToUsize(dimensions.val)) THEN Err("Invalid dimensions") ELSE
    ReadBody(dimensions.rd)

\* Matrix::get_row: Some(slice), None, or the panic of an out-of-range slice.
GetRow(mx, row) ==
    IF row < mx.rows
    THEN LET start == row * mx.cols
             end == start + mx.cols
         IN  IF end > Len(mx.data)
             THEN [kind |-> "Panic", row |-> << >>]
             ELSE [kind |-> "Some", row |-> SubSeq(mx.data, start + 1, end)]
    ELSE [kind |-> "None", row |-> << >>]


-----------------------------------------------------------------------------
(* Formatting (the write! calls of matrix.rs) *)

Digits == << "0", "1", "2", "3", "4", "5", "6", "7", "8", "9" >>

\* "{item}" of an unsigned integer.
RECURSIVE NatToStr(_)
NatToStr(n) == IF n < 10 THEN Digits[n + 1] ELSE NatToStr(n \div 10) \o Digits[(n % 10) + 1]

FmtU32(u) == NatToStr(ToUsize(u))

\* Five decimal digits, zero-padded.
Pad5(n) ==
    Digits[((n \div 10000) % 10) + 1] \o Digits[((n \div 1000) % 10) + 1] \o
    Digits[((n \div 100) % 10) + 1] \o Digits[((n \div 10) % 10) + 1] \o Digits[(n % 10) + 1]

\* The value of the f32 whose bits are u times 10^5, rounded to nearest (ties
\* to even): sign, 8-bit exponent, 23-bit mantissa.  Exact for the floats of
\* at most 8 significant bits and an exponent of at most 2^10 (lo = 0, biased
\* exponent 1..137), which is what the generated payloads hold, and for the
\* zeros.
Scaled5(u) ==
    LET exp  == (u.hi % 32768) \div 128
        sig  == IF exp = 0 THEN u.hi % 128 ELSE 128 + (u.hi % 128)
        e2   == (IF exp = 0 THEN 1 ELSE exp) - 134
        num  == sig * 100000
        den  == Pow2(IF e2 < 0 THEN IF -e2 > 30 THEN 30 ELSE -e2 ELSE 0)
        q0   == num \div den
        rem  == num % den
    IN  IF e2 >= 0 THEN num * Pow2(e2)
        ELSE IF 2 * rem > den \/ (2 * rem = den /\ q0 % 2 = 1) THEN q0 + 1 ELSE q0

Zeros == << "", "0", "00", "000", "0000", "00000" >>

\* "{item:.5}" of the f32 whose bits are u, as the pieces the formatter hands
\* to the writer one by one: the sign if negative; then the integer digits,
\* "." and the five fraction digits for a value of 1 or more, and "0.", the
\* leading zeros of the fraction (if any) and its digits for a smaller one.
F32Pieces(u) ==
    LET q == Scaled5(u)
        int == q \div 100000
        frac == q % 100000
        digits == NatToStr(frac)
        sign == IF u.hi \div 32768 = 1 THEN << "-" >> ELSE << >>
    IN  sign \o
        (IF int > 0 THEN << NatToStr(int), ".", Pad5(frac) >>
         ELSE IF frac = 0 THEN << "0.", "00000" >>
         ELSE IF Len(digits) = 5 THEN << "0.", digits >>
         ELSE << "0.", Zeros[6 - Len(digits)], digits >>)

RECURSIVE Concat(_)
Concat(ps) == IF ps = << >> THEN "" ELSE Head(ps) \o Concat(Tail(ps))

\* The text of "{item:.5}".
Fmt5(u) == Concat(F32Pieces(u))

-----------------------------------------------------------------------------
(* Matrix::write_csv_square and Matrix::write_csv_column (matrix.rs), on a  *)
(* sink that never fails.  The result is the io::Result (or the panic) and  *)
(* what was written: the lines, each the sequence of its comma-separated    *)
(* fields, with complete saying whether the last line got its line end, and *)
(* the pieces, the byte strings of the single write_all calls in order.     *)

Written(kind, w, complete) ==
    [kind |-> kind, lines |-> w.lines, pieces |-> w.pieces, complete |-> complete]

InvalidRowIndex(w, complete) ==
    [kind |-> "Err", msg |-> "Invalid row index", lines |-> w.lines, pieces |-> w.pieces,
     complete |-> complete]

\* One line more on the sink, written in the pieces ps.
PutLine(w, line, ps) == [lines |-> Append(w.lines, line), pieces |-> w.pieces \o ps]

\* The rows of write_csv_square from row position row_index (0-based) on.
RECURSIVE SquareRows(_, _, _)
SquareRows(mx, row_index, w) ==
    LET row_indexes == mx.indexes[2] IN
    IF row_index >= Len(row_indexes) THEN Written("Ok", w, TRUE) ELSE
    LET label == FmtU32(row_indexes[row_index + 1])
        row_data == GetRow(mx, row_index) IN
    IF row_data.kind = "None"
    THEN InvalidRowIndex(PutLine(w, << label >>, << label >>), FALSE)
    ELSE IF row_data.kind = "Panic"
    THEN Written("Panic", PutLine(w, << label >>, << label >>), FALSE)
    ELSE SquareRows(mx, row_index + 1,
             PutLine(w,
                 << label >> \o [c \in 1..Len(row_data.row) |-> Fmt5(row_data.row[c])],
                 << label >>
                 \o Flatten([c \in 1..Len(row_data.row) |-> << "," >> \o F32Pieces(row_data.row[c])])
                 \o << "\n" >>))

WriteCsvSquare(mx) ==
    LET col_indexes == mx.indexes[1]
        labels == [c \in 1..Len(col_indexes) |-> FmtU32(col_indexes[c])]
    IN  SquareRows(mx, 0,
            PutLine([lines |-> << >>, pieces |-> << >>],
                << "Row\\Col" >> \o labels,
                << "Row\\Col" >> \o Flatten([c \in 1..Len(labels) |-> << ",", labels[c] >>])
                \o << "\n" >>))

\* The lines of one row of write_csv_column from column position col_index on;
\* row_data[col_index] panics past the end of the row.
RECURSIVE ColumnCells(_, _, _, _, _)
ColumnCells(mx, label, row_data, col_index, w) ==
    LET col_indexes == mx.indexes[1] IN
    IF col_index >= Len(col_indexes) THEN Written("Ok", w, TRUE) ELSE
    IF col_index >= Len(row_data) THEN Written("Panic", w, TRUE) ELSE
    LET col == FmtU32(col_indexes[col_index + 1])
        value == row_data[col_index + 1] IN
    ColumnCells(mx, label, row_data, col_index + 1,
        PutLine(w, << label, col, Fmt5(value) >>,
                << label, ",", col, "," >> \o F32Pieces(value) \o << "\n" >>))

RECURSIVE ColumnRows(_, _, _)
ColumnRows(mx, row_index, w) ==
    LET row_indexes == mx.indexes[2] IN
    IF row_index >= Len(row_indexes) THEN Written("Ok", w, TRUE) ELSE
    LET row_data == GetRow(mx, row_index) IN
    IF row_data.kind = "None" THEN InvalidRowIndex(w, TRUE)
    ELSE IF row_data.kind = "Panic" THEN Written("Panic", w, TRUE)
    ELSE LET cells == ColumnCells(mx, FmtU32(row_indexes[row_index + 1]), row_data.row, 0, w)
         IN  IF cells.kind = "Ok"
             THEN ColumnRows(mx, row_index + 1, [lines |-> cells.lines, pieces |-> cells.pieces])
             ELSE cells

WriteCsvColumn(mx) ==
    ColumnRows(mx, 0,
        PutLine([lines |-> << >>, pieces |-> << >>],
                << "Origin", "Destination", "Value" >>, << "Origin,Destination,Value\n" >>))

-----------------------------------------------------------------------------
(* Input files: the layout of an EMME matrix file, cut to its first k bytes *)

\* 0xC4D4F1B2 in file order, then the same with its first and its last byte changed.
MagicBytes == << 178, 241, 212, 196 >>
Magics == { MagicBytes, << 179, 241, 212, 196 >>, << 178, 241, 212, 197 >> }

\* (version, data type) pairs, as bytes: the usual one, another type tag, all ones.
VersionTypes == { << LE4(1), LE4(1) >>, << LE4(0), LE4(4) >>,
                  << <<255, 255, 255, 255>>, <<255, 255, 255, 255>> >> }

\* Dimension counts: too few, right, too many, and 2 in the low byte only.
Dimensions == { 1, 2, 3, 258 }

\* f32 bit patterns (little-endian bytes) of 1.0, 2.5, -0.75, 0.0, 100.0, 0.03125
Palette == << <<0, 0, 128, 63>>, <<0, 0, 32, 64>>, <<0, 0, 64, 191>>,
              <<0, 0, 0, 0>>, <<0, 0, 200, 66>>, <<0, 0, 0, 61>> >>

ColLabel(seed, c) == 100 * c + 200 * seed
RowLabel(seed, r) == 10 * r + 65536 * seed
PayloadAt(seed, i) == Palette[((i + 3 * seed) % Len(Palette)) + 1]

\* The whole file for header fields and index lengths (m, n).
Encode(g) ==
    g.magic \o g.vt[1] \o g.vt[2] \o LE4(g.dims) \o LE4(g.m) \o LE4(g.n)
    \o Flatten([c \in 1..g.m |-> LE4(ColLabel(g.seed, c))])
    \o Flatten([r \in 1..g.n |-> LE4(RowLabel(g.seed, r))])
    \o Flatten([i \in 1..(g.m * g.n) |-> PayloadAt(g.seed, i - 1)])

FileLength(m, n) == 24 + 4 * m + 4 * n + 4 * m * n

Gens ==
    { g \in [magic : Magics, vt : VersionTypes, dims : Dimensions,
             m : 0..MaxLen, n : 0..MaxLen, seed : 0..1, k : 0..FileLength(MaxLen, MaxLen)] :
        g.k <= FileLength(g.m, g.n) }

WellFormed(g) == g.magic = MagicBytes /\ g.dims = 2

-----------------------------------------------------------------------------
(* The values the variables of the other parts keep while one part runs *)

NoResult == [kind |-> "None"]

IdleGen == [magic |-> MagicBytes, vt |-> << LE4(1), LE4(1) >>, dims |-> 2,
            m |-> 0, n |-> 0, seed |-> 0, k |-> 0]
IdleCall == [pc |-> "idle"]

-----------------------------------------------------------------------------
(* Decoding one file and writing it as CSV *)

DecodeInit ==
    /\ gen \in Gens
    /\ file = SubSeq(Encode(gen), 1, gen.k)
    /\ pc = "start"
    /\ matrix = NoResult
    /\ csv = NoResult
    /\ slen = 0
    /\ spos = 0
    /\ scall = IdleCall
    /\ files = << >>
    /\ column_output = FALSE
    /\ task = << >>
    /\ leaves = << >>
    /\ mainpc = "idle"
    /\ sink = IdleCall

\* Matrix::from_emme_file on the input file.
DoFromEmmeFile ==
    /\ pc = "start"
    /\ matrix' = FromEmmeFile(file)
    /\ pc' = "decoded"
    /\ UNCHANGED <<gen, file, csv, seekVars, driverVars, sinkVars>>

\* matrix.write_csv_square(&mut sink) on a decoded Matrix.
DoWriteCsvSquare ==
    /\ pc = "decoded"
    /\ matrix.kind = "Ok"
    /\ csv' = [writer |-> "square", out |-> WriteCsvSquare(matrix)]
    /\ pc' = "written"
    /\ UNCHANGED <<gen, file, matrix, seekVars, driverVars, sinkVars>>

\* matrix.write_csv_column(&mut sink) on a decoded Matrix.
DoWriteCsvColumn ==
    /\ pc = "decoded"
    /\ matrix.kind = "Ok"
    /\ csv' = [writer |-> "column", out |-> WriteCsvColumn(matrix)]
    /\ pc' = "written"
    /\ UNCHANGED <<gen, file, matrix, seekVars, driverVars, sinkVars>>

DecodeNext == DoFromEmmeFile \/ DoWriteCsvSquare \/ DoWriteCsvColumn

SpecDecode == DecodeInit /\ [][DecodeNext]_vars

-----------------------------------------------------------------------------
(* Properties of the decoder and the writers, checked under SpecDecode *)

Decoded == pc \in {"decoded", "written"}

\* The header fields as the file holds them.
FileMagic == SubSeq(file, 1, 4)
FileDimensions == FromLE(SubSeq(file, 13, 16))

\* C1: a decoded Matrix of a file with index lengths (m, n) has cols = m and
\* rows = n; get_row(r) is a slice of cols values for r < rows and None for
\* r >= rows.
C1_RoundTripShape ==
    (Decoded /\ matrix.kind = "Ok") =>
        /\ matrix.cols = gen.m
        /\ matrix.rows = gen.n
        /\ \A r \in 0..(matrix.rows - 1) :
              /\ GetRow(matrix, r).kind = "Some"
              /\ Len(GetRow(matrix, r).row) = matrix.cols
        /\ \A r \in matrix.rows..(matrix.rows + MaxLen) : GetRow(matrix, r).kind = "None"

\* C2: every decoded Matrix has data.length = rows * cols and exactly two
\* index arrays, of the lengths the header gives, in the header's order.
C2_DataLength ==
    (Decoded /\ matrix.kind = "Ok") =>
        /\ Len(matrix.data) = matrix.rows * matrix.cols
        /\ Len(matrix.indexes) = 2
        /\ Len(matrix.indexes[1]) = gen.m
        /\ Len(matrix.indexes[2]) = gen.n

\* A non-square file (m = 1, n = 2) was decoded.
C2_Witness ==
    /\ pc = "decoded"
    /\ matrix.kind = "Ok"
    /\ gen.m = 1
    /\ gen.n = 2
    /\ Len(matrix.data) = 2

\* C3: on an input of at least 16 bytes a wrong magic number gives "Invalid
\* header" whatever follows, a right one with a dimension count other than 2
\* gives "Invalid dimensions", and the version and data type never fail the
\* decode: a whole file with the right magic and two dimensions decodes.
C3_HeaderValidation ==
    (Decoded /\ Len(file) >= 16) =>
        /\ FileMagic # MagicBytes => matrix = Err("Invalid header")
        /\ (FileMagic = MagicBytes /\ FileDimensions # [lo |-> 2, hi |-> 0])
              => matrix = Err("Invalid dimensions")
        /\ (FileMagic = MagicBytes /\ FileDimensions = [lo |-> 2, hi |-> 0])
              => \/ matrix.kind = "Ok"
                 \/ matrix = Err("UnexpectedEof") /\ gen.k < FileLength(gen.m, gen.n)

\* A file with the right magic, an all-ones version and type and one
\* dimension was refused for its dimensions.
C3_Witness ==
    /\ pc = "decoded"
    /\ Len(file) >= 16
    /\ FileMagic = MagicBytes
    /\ gen.vt[1] = << 255, 255, 255, 255 >>
    /\ gen.dims = 1
    /\ matrix = Err("Invalid dimensions")

\* C4: the first k < L bytes of a well-formed file of length L never decode
\* to a Matrix: the read that runs out of bytes fails.
C4_Truncation ==
    (Decoded /\ WellFormed(gen) /\ gen.k < FileLength(gen.m, gen.n)) =>
        matrix = Err("UnexpectedEof")

\* A file cut inside its payload was refused.
C4_Witness ==
    /\ pc = "decoded"
    /\ WellFormed(gen)
    /\ gen.m = 2
    /\ gen.n = 1
    /\ gen.k = FileLength(gen.m, gen.n) - 1
    /\ matrix.kind = "Err"

\* C5: write_csv_square on a decoded Matrix returns Ok: a header line with the
\* labels of indexes[0], then one line per entry of indexes[1], the line of
\* row position r holding that label and as many values as there are column
\* labels, data[r*cols .. r*cols+cols].
C5_SquareWriter ==
    (pc = "written" /\ csv.writer = "square") =>
        LET out == csv.out
            col_indexes == matrix.indexes[1]
            row_indexes == matrix.indexes[2]
        IN  /\ out.kind = "Ok"
            /\ Len(out.lines) = 1 + Len(row_indexes)
            /\ out.lines[1] = << "Row\\Col" >> \o
                   [c \in 1..Len(col_indexes) |-> FmtU32(col_indexes[c])]
            /\ \A r \in 1..Len(row_indexes) :
                  /\ Len(out.lines[r + 1]) = 1 + Len(col_indexes)
                  /\ out.lines[r + 1] = << FmtU32(row_indexes[r]) >> \o
                         [c \in 1..matrix.cols |-> Fmt5(matrix.data[(r - 1) * matrix.cols + c])]

\* C6: write_csv_column on a decoded Matrix returns Ok without a panic and
\* writes, after the header, length(indexes[1]) * length(indexes[0]) lines in
\* row-major order: (row label, column label, value of that row and column).
C6_ColumnWriter ==
    (pc = "written" /\ csv.writer = "column") =>
        LET out == csv.out
            col_indexes == matrix.indexes[1]
            row_indexes == matrix.indexes[2]
        IN  /\ out.kind = "Ok"
            /\ Len(out.lines) = 1 + Len(row_indexes) * Len(col_indexes)
            /\ out.lines[1] = << "Origin", "Destination", "Value" >>
            /\ \A r \in 1..Len(row_indexes) : \A c \in 1..Len(col_indexes) :
                  out.lines[1 + (r - 1) * Len(col_indexes) + c] =
                      << FmtU32(row_indexes[r]), FmtU32(col_indexes[c]),
                         Fmt5(matrix.data[(r - 1) * Len(col_indexes) + c]) >>

-----------------------------------------------------------------------------
(* Reader on a Gzip source (util.rs): read, read_into_vector and seek.  The *)
(* decompressed stream is its length and its position: what a read returns  *)
(* is the bytes from the position on.  A reader is followed from its        *)
(* construction through its reads, one seek call and the reads after it,    *)
(* up to the first error of the decoder.                                    *)

\* const MAX_SIZE: the size of the buffer the skipped bytes are read into.
MAX_SIZE == 4096

\* Longest decompressed stream of the model.
MaxStream == 4100

\* Most reads of one reader that return Ok.
MaxReads == 1

StreamLens == { 0, 10, MaxStream }

\* Offsets of the seek calls: SeekFrom::Start(k), End(k), Current(k).
SeekOffsets == { -4097, -1, 0, 1, 4097 }
SeekKinds == { "Start", "End", "Current" }

\* Lengths of the buffers handed to Reader::read, and the element counts
\* handed to read_into_vector.
ReadWants == { 2 }
VectorSizes == { 1000 }

\* std::mem::size_of::<T>() of read_into_vector, T = u32 or f32.
ElemSize == 4

min(a, b) == IF a < b THEN a ELSE b

\* The counts a read of `want` bytes may return with `avail` bytes left in the
\* stream: 0 only for an empty request or at the end, else any count from one
\* byte to the whole request, as the compressed input comes in.
ReadCounts(want, avail) ==
    IF min(want, avail) = 0 THEN { 0 } ELSE 1..min(want, avail)

\* A seek that refuses SeekFrom::End and backward moves only, and skips
\* forward on SeekFrom::Start (mutant of GzipSeekUnsupported).
GzipSeekUnsupportedButStart(kind, k) == kind = "End" \/ (kind = "Current" /\ k < 0)

\* The arms of Reader::seek on a Gzip source that return InvalidInput.
GzipSeekUnsupported(kind, k) == kind \in {"Start", "End"} \/ (kind = "Current" /\ k < 0)

\* The last call on the reader: op with its argument k, the position pos0 it
\* was made at, the bytes it has read and its result; reads counts the reads
\* that have returned Ok.
Call(at, op, kind, k, pos0, total_read, result, reads) ==
    [pc |-> at, op |-> op, kind |-> kind, k |-> k, pos0 |-> pos0,
     total_read |-> total_read, result |-> result, reads |-> reads]

\* No call is in progress on the reader and none has met an error of the
\* decoder.
Usable(c) == c.pc \in {"ready", "done", "after"} /\ c.result # "IoError"

\* Where the reader stands after a read: before its seek call or after it.
AfterRead(at) == IF at = "ready" THEN "ready" ELSE "after"

\* Reader::Gzip(GzDecoder::new(..)): nothing of the stream is read.
SeekInit ==
    /\ slen \in StreamLens
    /\ spos = 0
    /\ scall = Call("ready", "None", "None", 0, 0, 0, "None", 0)
    /\ gen = IdleGen
    /\ file = << >>
    /\ pc = "idle"
    /\ matrix = NoResult
    /\ csv = NoResult
    /\ files = << >>
    /\ column_output = FALSE
    /\ task = << >>
    /\ leaves = << >>
    /\ mainpc = "idle"
    /\ sink = IdleCall

\* Reader::read(buf), buf of `want` bytes, returns Ok(read).
GzipRead ==
    /\ Usable(scall)
    /\ scall.reads < MaxReads
    /\ \E want \in ReadWants : \E read \in ReadCounts(want, slen - spos) :
          /\ spos' = spos + read
          /\ scall' = Call(AfterRead(scall.pc), "read", "None", want, spos, read, "Ok",
                           scall.reads + 1)
    /\ UNCHANGED <<slen, decodeVars, driverVars, sinkVars>>

\* Reader::read(buf) returns the error of the decoder: no byte is delivered.
GzipReadFails ==
    /\ Usable(scall)
    /\ scall.reads < MaxReads
    /\ \E want \in ReadWants :
          scall' = Call(AfterRead(scall.pc), "read", "None", want, spos, 0, "IoError",
                        scall.reads)
    /\ UNCHANGED <<slen, spos, decodeVars, driverVars, sinkVars>>

\* Reader::read_into_vector(size): read_exact of size * size_of::<T>() bytes.
\* All of them are there and Ok(data); or the stream ends before and
\* UnexpectedEof; or a read fails on the way and the `?` returns its error
\* with any part of the bytes consumed.
GzipReadIntoVector ==
    /\ Usable(scall)
    /\ scall.reads < MaxReads
    /\ \E size \in VectorSizes :
          LET need == size * ElemSize
              avail == slen - spos IN
          \/ /\ need <= avail
             /\ spos' = spos + need
             /\ scall' = Call(AfterRead(scall.pc), "read_into_vector", "None", size, spos,
                              need, "Ok", scall.reads + 1)
          \/ /\ need > avail
             /\ spos' = slen
             /\ scall' = Call(AfterRead(scall.pc), "read_into_vector", "None", size, spos,
                              avail, "UnexpectedEof", scall.reads)
          \/ \E got \in 0..min(need, avail) :
                /\ spos' = spos + got
                /\ scall' = Call(AfterRead(scall.pc), "read_into_vector", "None", size, spos,
                                 got, "IoError", scall.reads)
    /\ UNCHANGED <<slen, decodeVars, driverVars, sinkVars>>

\* Reader::seek(pos) up to its loop: the unsupported arms return the error,
\* SeekFrom::Current(k >= 0) enters the loop with total_read = 0.
SeekCall ==
    /\ scall.pc = "ready"
    /\ Usable(scall)
    /\ \E kind \in SeekKinds : \E k \in SeekOffsets :
          /\ kind = "Start" => k >= 0
          /\ IF GzipSeekUnsupported(kind, k)
             THEN scall' = Call("done", "seek", kind, k, spos, 0, "InvalidInput", scall.reads)
             ELSE scall' = Call("loop", "seek", kind, k, spos, 0, "None", scall.reads)
    /\ UNCHANGED <<slen, spos, decodeVars, driverVars, sinkVars>>

\* One turn of the loop: read min(remaining, MAX_SIZE) bytes; stop on a read of
\* 0 bytes or once total_read >= pos, and return Ok(0).
SeekLoop ==
    /\ scall.pc = "loop"
    /\ LET remaining == scall.k - scall.total_read IN
       \E read \in ReadCounts(min(remaining, MAX_SIZE), slen - spos) :
          /\ spos' = spos + read
          /\ scall' = IF read = 0 \/ scall.total_read + read >= scall.k
                      THEN [scall EXCEPT !.pc = "done", !.total_read = @ + read,
                                         !.result = "Ok"]
                      ELSE [scall EXCEPT !.total_read = @ + read]
    /\ UNCHANGED <<slen, decodeVars, driverVars, sinkVars>>

\* The read of one turn of the loop fails and the `?` returns the error.  The
\* loop reads on every turn, also into an empty buffer when pos = 0: an I/O
\* error, a header of the container that cannot be read, a corrupt stream, a
\* checksum that does not match on the read after the last byte.
SeekLoopFails ==
    /\ scall.pc = "loop"
    /\ scall' = [scall EXCEPT !.pc = "done", !.result = "IoError"]
    /\ UNCHANGED <<slen, spos, decodeVars, driverVars, sinkVars>>

SeekNext ==
    \/ GzipRead
    \/ GzipReadFails
    \/ GzipReadIntoVector
    \/ SeekCall
    \/ SeekLoop
    \/ SeekLoopFails

SpecSeek == SeekInit /\ [][SeekNext]_vars

\* C7: a seek(SeekFrom::Current(k)), k >= 0, that returns Ok has advanced the
\* decompressed stream by exactly k bytes.
C7_ForwardSkipExact ==
    (scall.pc = "done" /\ scall.kind = "Current" /\ scall.k >= 0 /\ scall.result = "Ok")
        => spos = scall.pos0 + scall.k

\* C8: a seek from the start, from the end or backward returns the
\* InvalidInput error and leaves the stream where it was.
C8_UnsupportedSeek ==
    (scall.pc = "done" /\ (scall.kind \in {"Start", "End"} \/ scall.k < 0)) =>
        /\ scall.result = "InvalidInput"
        /\ spos = scall.pos0
        /\ scall.total_read = 0

\* A seek to an absolute position was refused in the middle of a stream.
C8_Witness ==
    /\ scall.pc = "done"
    /\ scall.kind = "Start"
    /\ scall.k > MAX_SIZE
    /\ scall.result = "InvalidInput"
    /\ spos > 0
    /\ spos < slen

-----------------------------------------------------------------------------
(* process_mtx (main.rs) on one input file *)

SquareFile == [magic |-> MagicBytes, vt |-> << LE4(1), LE4(1) >>, dims |-> 2,
               m |-> 2, n |-> 2, seed |-> 0, k |-> FileLength(2, 2)]

\* The input files of the driver: a square matrix, the same cut short, one
\* with a wrong magic number, a matrix with more columns than rows (m > n),
\* one with more rows than columns (m < n), and a path that cannot be opened.
Catalogue ==
    << [exists |-> TRUE, g |-> SquareFile],
       [exists |-> TRUE, g |-> [SquareFile EXCEPT !.k = FileLength(2, 2) - 3]],
       [exists |-> TRUE, g |-> [SquareFile EXCEPT !.magic = << 179, 241, 212, 196 >>]],
       [exists |-> TRUE, g |-> [SquareFile EXCEPT !.n = 1, !.k = FileLength(2, 1)]],
       [exists |-> TRUE, g |-> [SquareFile EXCEPT !.m = 1, !.k = FileLength(1, 2)]],
       [exists |-> FALSE, g |-> SquareFile] >>

\* Matrix::from_emme_file(path): File::open, then the decode.
OpenAndDecode(f) ==
    IF ~f.exists THEN Err("NotFound") ELSE FromEmmeFile(SubSeq(Encode(f.g), 1, f.g.k))

\* The writer process_mtx picks.
WriteCsv(mx, column) == IF column THEN WriteCsvColumn(mx) ELSE WriteCsvSquare(mx)

\* How process_mtx ends on a sink that takes every byte: "Ok", "Err" or "Panic".
ProcessMtx(f, column) ==
    LET mx == OpenAndDecode(f)
    IN  IF mx.kind = "Err" THEN "Err" ELSE WriteCsv(mx, column).kind

-----------------------------------------------------------------------------
(* main (main.rs): files.par_iter().for_each(...)                           *)
(* The parallel iterator halves the list into runs of consecutive files;    *)
(* each run is one sequential loop over its files, the runs proceed         *)
(* concurrently.  A panic unwinds the loop of its run, the other runs are   *)
(* still executed, and for_each then resumes the panic in main.             *)

\* The ways a run of len files from lo on is halved further, or left whole.
RECURSIVE Halvings(_, _)
Halvings(lo, len) ==
    { << << lo, lo + len - 1 >> >> } \cup
    (IF len >= 2
     THEN { a \o b : a \in Halvings(lo, len \div 2),
                     b \in Halvings(lo + (len \div 2), len - (len \div 2)) }
     ELSE { })

\* The runs of a list of n files: a list of two or more is halved at least once.
Splits(n) ==
    IF n < 2 THEN Halvings(1, n)
    ELSE { a \o b : a \in Halvings(1, n \div 2),
                    b \in Halvings(1 + (n \div 2), n - (n \div 2)) }

LeafOf(i) == CHOOSE l \in { leaves[j] : j \in 1..Len(leaves) } : l[1] <= i /\ i <= l[2]

Finished(st) == st \in {"ok", "reported", "panicked", "skipped"}

DriverInit ==
    /\ \E n \in 1..MaxFiles : files \in [1..n -> 1..Len(Catalogue)]
    /\ column_output \in BOOLEAN
    /\ task = [i \in 1..Len(files) |-> "pending"]
    /\ leaves \in Splits(Len(files))
    /\ mainpc = "par_iter"
    /\ gen = IdleGen
    /\ file = << >>
    /\ pc = "idle"
    /\ matrix = NoResult
    /\ csv = NoResult
    /\ slen = 0
    /\ spos = 0
    /\ scall = IdleCall
    /\ sink = IdleCall

\* A worker takes the next file of a run: the closure of for_each starts.
TaskStart(i) ==
    /\ mainpc = "par_iter"
    /\ task[i] = "pending"
    /\ IF i = LeafOf(i)[1] THEN TRUE ELSE task[i - 1] \in {"ok", "reported"}
    /\ task' = [task EXCEPT ![i] = "running"]
    /\ UNCHANGED <<files, column_output, leaves, mainpc, decodeVars, seekVars, sinkVars>>

\* The closure ends: process_mtx returned Ok, or returned Err and the error
\* was printed with the path, or panicked, which ends the loop of the run.
TaskFinish(i) ==
    /\ task[i] = "running"
    /\ LET result == ProcessMtx(Catalogue[files[i]], column_output) IN
       task' = IF result = "Ok" THEN [task EXCEPT ![i] = "ok"]
               ELSE IF result = "Err" THEN [task EXCEPT ![i] = "reported"]
               ELSE [j \in 1..Len(task) |->
                        IF j = i THEN "panicked"
                        ELSE IF j > i /\ j <= LeafOf(i)[2] THEN "skipped"
                        ELSE task[j]]
    /\ UNCHANGED <<files, column_output, leaves, mainpc, decodeVars, seekVars, sinkVars>>

\* for_each returns once every run has ended, or resumes the panic of a run.
MainJoin ==
    /\ mainpc = "par_iter"
    /\ \A i \in 1..Len(task) : Finished(task[i])
    /\ mainpc' = IF \E i \in 1..Len(task) : task[i] = "panicked"
                 THEN "panicked" ELSE "returned"
    /\ UNCHANGED <<files, column_output, task, leaves, decodeVars, seekVars, sinkVars>>

DriverNext ==
    \/ \E i \in 1..Len(task) : TaskStart(i)
    \/ \E i \in 1..Len(task) : TaskFinish(i)
    \/ MainJoin

SpecDriver == DriverInit /\ [][DriverNext]_vars

\* C9: a failure of one file is caught and reported for that file only: no
\* task ends by a panic, no file is left unprocessed, and the run is not
\* aborted.
C9_FailureIsolation ==
    /\ mainpc # "panicked"
    /\ \A i \in 1..Len(task) :
          /\ task[i] \notin {"panicked", "skipped"}
          /\ (Finished(task[i]) /\ ProcessMtx(Catalogue[files[i]], column_output) # "Ok")
                => task[i] = "reported"

-----------------------------------------------------------------------------
(* process_mtx (main.rs) with its sink: a BufWriter over the created file,  *)
(* on a disk with `free` bytes of space left.  The sink is its buffered     *)
(* byte count, the byte count of the file and the free space.               *)

\* Capacity of the buffer of BufWriter::new.
BufCap == 8192

\* File::write_all of n bytes: all of them, or what fits and the error.
InnerWriteAll(st, n) ==
    IF n <= st.free
    THEN [ok |-> TRUE, buf |-> st.buf, written |-> st.written + n, free |-> st.free - n]
    ELSE [ok |-> FALSE, buf |-> st.buf, written |-> st.written + st.free, free |-> 0]

\* BufWriter::flush_buf: the buffered bytes go to the file; on an error the
\* bytes that did not are kept.
FlushBuf(st) ==
    LET w == InnerWriteAll(st, st.buf)
    IN  [w EXCEPT !.buf = st.buf - (w.written - st.written)]

\* BufWriter::write_all of n bytes: into the buffer when they fit, else the
\* buffer is flushed first and a piece as large as the buffer goes straight
\* to the file.
BufWriteAll(st, n) ==
    IF n < BufCap - st.buf
    THEN [ok |-> TRUE, buf |-> st.buf + n, written |-> st.written, free |-> st.free]
    ELSE LET flushed == IF n > BufCap - st.buf THEN FlushBuf(st)
                        ELSE [ok |-> TRUE, buf |-> st.buf, written |-> st.written,
                              free |-> st.free]
         IN  IF ~flushed.ok THEN flushed
             ELSE IF n >= BufCap THEN InnerWriteAll(flushed, n)
             ELSE [flushed EXCEPT !.buf = @ + n]

\* The byte counts of the write_all calls of a writer, in order.
Chunks(out) == [i \in 1..Len(out.pieces) |-> Len(out.pieces[i])]

DiskFrees == 0..MaxDisk

SinkInit ==
    /\ \E f \in 1..Len(Catalogue), column \in BOOLEAN, free \in DiskFrees, create_ok \in BOOLEAN :
          sink = [pc |-> "start", f |-> f, column |-> column, create_ok |-> create_ok,
                  chunks |-> << >>, kind |-> "None", buf |-> 0, written |-> 0, free |-> free,
                  produced |-> 0, result |-> "None"]
    /\ gen = IdleGen
    /\ file = << >>
    /\ pc = "idle"
    /\ matrix = NoResult
    /\ csv = NoResult
    /\ slen = 0
    /\ spos = 0
    /\ scall = IdleCall
    /\ files = << >>
    /\ column_output = FALSE
    /\ task = << >>
    /\ leaves = << >>
    /\ mainpc = "idle"

\* process_mtx up to the writer: from_emme_file(path)?, File::create(..)?,
\* BufWriter::new(file).
PmOpen ==
    /\ sink.pc = "start"
    /\ LET mx == OpenAndDecode(Catalogue[sink.f]) IN
       IF mx.kind = "Err" \/ ~sink.create_ok
       THEN sink' = [sink EXCEPT !.pc = "dropped", !.result = "Err"]
       ELSE LET out == WriteCsv(mx, sink.column) IN
            sink' = [sink EXCEPT !.pc = "writing", !.chunks = Chunks(out),
                                 !.kind = out.kind]
    /\ UNCHANGED <<decodeVars, seekVars, driverVars>>

\* One write of the writer reaches the BufWriter; its error ends the writer
\* and, by `?`, process_mtx.
PmWrite ==
    /\ sink.pc = "writing"
    /\ sink.chunks # << >>
    /\ LET n == Head(sink.chunks)
           w == BufWriteAll(sink, n) IN
       sink' = IF w.ok
               THEN [sink EXCEPT !.chunks = Tail(@), !.buf = w.buf, !.written = w.written,
                                 !.free = w.free, !.produced = @ + n]
               ELSE [sink EXCEPT !.pc = "returned", !.result = "Err", !.buf = w.buf,
                                 !.written = w.written, !.free = w.free]
    /\ UNCHANGED <<decodeVars, seekVars, driverVars>>

\* The writer is through: process_mtx has its result, Ok(()) after an Ok of
\* the writer, the writer's error (or its panic) otherwise.
PmReturn ==
    /\ sink.pc = "writing"
    /\ sink.chunks = << >>
    /\ sink' = [sink EXCEPT !.pc = "returned", !.result = sink.kind]
    /\ UNCHANGED <<decodeVars, seekVars, driverVars>>

\* The BufWriter goes out of scope: its drop flushes the buffer and discards
\* the result of the flush.
PmDrop ==
    /\ sink.pc = "returned"
    /\ LET w == FlushBuf(sink) IN
       sink' = [sink EXCEPT !.pc = "dropped", !.buf = w.buf, !.written = w.written,
                            !.free = w.free]
    /\ UNCHANGED <<decodeVars, seekVars, driverVars>>

SinkNext == PmOpen \/ PmWrite \/ PmReturn \/ PmDrop

SpecSink == SinkInit /\ [][SinkNext]_vars

\* C10: when process_mtx has returned Ok, every byte the CSV writer produced is
\* in the output file.
C10_FlushedBeforeOk ==
    (sink.pc = "dropped" /\ sink.result = "Ok") => sink.written = sink.produced

=============================================================================
